---- MODULE Spec2Model ----
(***************************************************************************)
(* Client-side WebSocket opening handshake of mWebSockets                  *)
(* (src/src/WebSocketClient.cpp): open(), _sendRequest(),                  *)
(* _waitForResponse(), _readResponse(), _validateHandshake().              *)
(*                                                                         *)
(* Byte strings are TLA+ strings; a C string held in a zero-filled buffer  *)
(* is the string of the bytes stored before the first NUL.  The byte       *)
(* alphabet of the modelled responses holds no NUL byte.                   *)
(***************************************************************************)
EXTENDS Integers, Sequences, FiniteSets, TLC

\* ------------------------------------------------------------------ bounds
\* open() calls made by the application in one behaviour.
MaxOpens == 2
\* kTimeoutInterval, the attempt budget open() hands to _waitForResponse
\* (declared in the library's configuration header), scaled down.
kTimeoutInterval == 3
\* listen() calls made by the application after one open().
MaxListens == 3

\* ------------------------------------------------------- program constants
\* char buffer[128] of _readResponse and of _sendRequest.
kBufferSize == 128
\* byte counter / byte currentLine / uint8_t lineBreakPos are 8 bits wide.
kByteModulus == 256
\* strncmp_P(buffer, "HTTP/1.1 101", 12)
kStatusPrefixLen == 12

\* ------------------------------------------------------------ C strings
NullPtr == [null |-> TRUE, str |-> ""]
Ptr(s) == [null |-> FALSE, str |-> s]

CharAt(s, i) == SubSeq(s, i, i)
Take(s, n) == SubSeq(s, 1, IF n < Len(s) THEN n ELSE Len(s))
Drop(s, n) == SubSeq(s, n + 1, Len(s))
MinOf(S) == CHOOSE m \in S : \A x \in S : m <= x

\* strcspn: length of the initial segment of s holding no byte of reject.
strcspn(s, reject) ==
  LET hits == {i \in 1..Len(s) : CharAt(s, i) \in reject}
  IN  IF hits = {} THEN Len(s) ELSE MinOf(hits) - 1

\* strspn: length of the initial segment of s made only of bytes of accept.
strspn(s, accept) ==
  LET miss == {i \in 1..Len(s) : CharAt(s, i) \notin accept}
  IN  IF miss = {} THEN Len(s) ELSE MinOf(miss) - 1

\* strtok_r(str, delim, &saveptr): skips leading delimiters, returns the
\* token up to the next delimiter (NULL when none is left) and the save
\* pointer just past that delimiter.
strtok_r(s, delim) ==
  LET start == strspn(s, delim)
      s1    == Drop(s, start)
      n     == strcspn(s1, delim)
  IN  IF start = Len(s)
        THEN [token |-> NullPtr, rest |-> ""]
        ELSE [token |-> Ptr(Take(s1, n)),
              rest  |-> IF n < Len(s1) THEN Drop(s1, n + 1) ELSE ""]

UpperCase == "ABCDEFGHIJKLMNOPQRSTUVWXYZ"
LowerCase == "abcdefghijklmnopqrstuvwxyz"
tolower(c) ==
  LET at == {i \in 1..Len(UpperCase) : CharAt(UpperCase, i) = c}
  IN  IF at = {} THEN c ELSE CharAt(LowerCase, CHOOSE i \in at : TRUE)

\* s with every byte passed through tolower (halving keeps the evaluation
\* shallow).
RECURSIVE LowerStr(_)
LowerStr(s) ==
  IF Len(s) = 0 THEN ""
  ELSE IF Len(s) = 1 THEN tolower(s)
  ELSE LowerStr(Take(s, Len(s) \div 2)) \o LowerStr(Drop(s, Len(s) \div 2))

\* strcasecmp_P(a, b) == 0
strcasecmp_eq(a, b) == LowerStr(a) = LowerStr(b)
\* strcmp(a, b) == 0
strcmp_eq(a, b) == a = b
\* strncmp_P(a, b, n) == 0
strncmp_eq(a, b, n) == Take(a, n) = Take(b, n)

\* ------------------------------------------------- handshake key material
\* generateSecKey: base64 of 16 random bytes, 24 characters.  The random
\* source yields a key it yielded before or a new one; the keys are named
\* in the order of their first appearance.
KeyList == <<"dGhlIHNhbXBsZSBub25jZQ==", "x3JJHMbDL1EzLkh9GBhXDw==">>
Keys == {KeyList[i] : i \in 1..Len(KeyList)}
generateSecKey(used) ==
  used \cup {KeyList[i] : i \in {j \in 1..Len(KeyList) : j <= Cardinality(used) + 1}}

\* encodeSecKey(key, out): base64(SHA1(key ++ GUID)), 28 characters.
encodeSecKey(key) ==
  IF key = "dGhlIHNhbXBsZSBub25jZQ==" THEN "s3pPLMBiTxaQ9kYGzzhZRbK+xOo="
  ELSE IF key = "x3JJHMbDL1EzLkh9GBhXDw==" THEN "HSmrc0sMlYUkAGmm5OPpG2HaGWk="
  ELSE "2jmj7l5rSw0yVb/vlWAYkK/YBwk="

\* Handshake flags (bits of uint8_t flags, kept as the set of bits set).
kValidUpgradeHeader == "UpgradeValid"
kValidConnectionHeader == "ConnectionValid"
kValidSecKey == "SecKeyValid"
AllFlags == {kValidUpgradeHeader, kValidConnectionHeader, kValidSecKey}

\* --------------------------------------------------------------- requests
Host == "192.168.46.9"
Port == "3000"
Path == "/"
\* const char *supportedProtocols: nullptr in the application's first call,
\* a list in its later calls.
ProtocolArg(call) == IF call = 1 THEN NullPtr ELSE Ptr("chat")

\* snprintf(buffer, sizeof(buffer), ...) keeps at most 127 bytes.
snprintf(s) == Take(s, kBufferSize - 1)

\* The lines _sendRequest prints, in order (println appends CRLF).
RequestLines(host, port, path, key, protocols) ==
  <<snprintf("GET " \o path \o " HTTP/1.1"),
    snprintf("Host: " \o host \o ":" \o port),
    "Upgrade: websocket",
    "Connection: Upgrade",
    snprintf("Sec-WebSocket-Key: " \o key)>>
  \o (IF protocols.null THEN <<>>
      ELSE <<snprintf("Sec-WebSocket-Protocol: " \o protocols.str)>>)
  \o <<"Sec-WebSocket-Version: 13\r\n">>

\* -------------------------------------------------------------- responses
CRLF == "\r\n"
RECURSIVE Lines(_, _)
Lines(ls, eol) == IF ls = <<>> THEN "" ELSE Head(ls) \o eol \o Lines(Tail(ls), eol)

StatusLine == "HTTP/1.1 101 Switching Protocols"
UpgradeHdr == "Upgrade: websocket"
ConnectionHdr == "Connection: Upgrade"
AcceptHdr(key) == "Sec-WebSocket-Accept: " \o encodeSecKey(key)
OtherKey(key) == CHOOSE k \in Keys : k # key

\* Responses made of a 101 status line, valid Upgrade, Connection and
\* Sec-WebSocket-Accept headers and the terminating blank line.
ValidResponses(key) ==
  { Lines(<<StatusLine, UpgradeHdr, ConnectionHdr, AcceptHdr(key), "">>, CRLF),
    Lines(<<"HTTP/1.1 101", "connection:upgrade", AcceptHdr(key),
            "UPGRADE: WebSocket", "">>, CRLF),
    Lines(<<StatusLine, ConnectionHdr, UpgradeHdr,
            "sec-websocket-accept:  " \o encodeSecKey(key) \o " ", "">>, "\n") }

\* Responses with a status line that does not begin with "HTTP/1.1 101".
BadStatusResponses(key) ==
  { Lines(<<"HTTP/1.1 404 Not Found", UpgradeHdr, ConnectionHdr, AcceptHdr(key), "">>, CRLF),
    Lines(<<"HTTP/1.0 101 Switching Protocols", UpgradeHdr, "">>, CRLF),
    Lines(<<"", StatusLine, UpgradeHdr, ConnectionHdr, AcceptHdr(key), "">>, CRLF),
    Lines(<<"HTTP/1.1 10">>, CRLF) }

\* Responses lacking one or more of the required headers.
MissingHeaderResponses(key) ==
  { Lines(<<StatusLine, ConnectionHdr, AcceptHdr(key), "">>, CRLF),
    Lines(<<StatusLine, UpgradeHdr, AcceptHdr(key), "">>, CRLF),
    Lines(<<StatusLine, UpgradeHdr, ConnectionHdr, "">>, CRLF),
    Lines(<<StatusLine, ConnectionHdr, "">>, CRLF),
    Lines(<<StatusLine, "">>, CRLF),
    \* the blank line comes before the headers: they are body bytes
    Lines(<<StatusLine, UpgradeHdr, "", ConnectionHdr, AcceptHdr(key), "">>, CRLF) }

\* Responses with a required header whose value is wrong.
BadValueResponses(key) ==
  { Lines(<<StatusLine, "Upgrade: h2c", ConnectionHdr, AcceptHdr(key), "">>, CRLF),
    Lines(<<StatusLine, UpgradeHdr, "Connection: close", AcceptHdr(key), "">>, CRLF),
    Lines(<<StatusLine, "Upgrade:", "">>, CRLF),
    Lines(<<StatusLine, UpgradeHdr, ConnectionHdr, AcceptHdr(OtherKey(key)), "">>, CRLF),
    Lines(<<StatusLine, UpgradeHdr, ConnectionHdr,
            "Sec-WebSocket-Accept: " \o LowerStr(encodeSecKey(key)), "">>, CRLF),
    Lines(<<StatusLine, "Sec-WebSocket-Accept:", UpgradeHdr, ConnectionHdr, "">>, CRLF),
    Lines(<<StatusLine, "Upgrade: h2c", AcceptHdr(OtherKey(key)), "">>, CRLF) }

\* Other responses: ignored headers and a body after the blank line, a
\* stream that ends before the blank line, no response at all.
OtherResponses(key) ==
  { Lines(<<StatusLine, "Server: x", UpgradeHdr, ConnectionHdr, AcceptHdr(key), "">>,
          CRLF) \o "body",
    Lines(<<StatusLine, UpgradeHdr, ConnectionHdr, AcceptHdr(key)>>, CRLF),
    Lines(<<StatusLine, UpgradeHdr, ConnectionHdr>>, CRLF) \o "Sec-WebSocket-Acc",
    "" }

Responses(key) ==
  ValidResponses(key) \cup BadStatusResponses(key) \cup MissingHeaderResponses(key)
    \cup BadValueResponses(key) \cup OtherResponses(key)

\* Responses the server may also send in single bytes rather than in one
\* segment.
SlowResponses(key) ==
  ValidResponses(key) \cup
  { Lines(<<"HTTP/1.1 404 Not Found", UpgradeHdr, ConnectionHdr, AcceptHdr(key), "">>, CRLF),
    Lines(<<StatusLine, ConnectionHdr, AcceptHdr(key), "">>, CRLF) }

\* ------------------------------------------------------------------ state
VARIABLES
  m_readyState,  \* ReadyState of the session
  connected,     \* m_client.connected()
  pending,       \* bytes received by m_client and not read yet
  wire,          \* bytes of the server's response still in flight
  sockets,       \* transport connections currently open
  tx,            \* lines written to the transport by the current open()
  _onOpen,     \* _onOpen holds a callback
  _onError,    \* _onError holds a callback
  m_protocol,    \* char *m_protocol
  heap,          \* strings allocated with new char[] and not deleted
  pc,            \* position of the application inside open()
  opens,         \* open() calls made so far
  secKey,        \* char secKey[25] of open()
  attempts,      \* uint16_t attempts of _waitForResponse, while it runs
  waited,        \* how the wait of the current/last open() ended: "data"
                 \* before the attempts were used up, "budget" after
                 \* maxAttempts polls that each found nothing
  flags,         \* uint8_t flags of _readResponse
  currentLine,   \* byte currentLine of _readResponse
  counter,       \* byte counter of _readResponse
  buffer,        \* char buffer[128] of _readResponse
  ret,           \* what the current/last open() returned
  errLog,        \* causes passed to _onError by the current/last open()
  openLog,       \* times _onOpen was invoked by the current/last open()
  stateLog,      \* values assigned to m_readyState by the current/last open()
  consumed,      \* bytes _read() returned to the current/last open()
  response,      \* the response the server sent for the current/last request
  headerLines,   \* header lines (after the status line) examined
  validated,     \* _validateHandshake was reached
  prevKeys,      \* handshake keys of earlier open() calls
  connectResult, \* what m_client.connect() returned to the current/last open()
  closedLive,    \* close() of the current/last open() found a connected transport
  _onClose,      \* _onClose holds a callback
  closeLog,      \* codes passed to _onClose since the last open()
  dropped,       \* times the peer dropped the connection since the last open()
  polls,         \* listen() calls made since the last open()
  polled         \* what the last listen() found and did

vars == <<m_readyState, connected, pending, wire, sockets, tx, _onOpen,
          _onError, m_protocol, heap, pc, opens, secKey, attempts, flags,
          currentLine, counter, buffer, ret, errLog, openLog, stateLog,
          consumed, response, headerLines, validated, prevKeys,
          connectResult, closedLive, waited, _onClose, closeLog, dropped,
          polls, polled>>

transportVars == <<connected, pending, wire, sockets>>
callbackVars == <<_onOpen, _onError>>
callVars == <<connectResult, closedLive, waited>>
readerVars == <<flags, currentLine, counter, buffer, headerLines, validated>>
pollVars == <<_onClose, closeLog, dropped, polls, polled>>

\* No listen() call since the last open().
NoPoll == [made |-> FALSE, connected |-> FALSE, state |-> "", available |-> FALSE,
           closes |-> 0, frames |-> 0]

Init ==
  /\ m_readyState = "CLOSED"
  /\ connected = FALSE
  /\ pending = ""
  /\ wire = ""
  /\ sockets = 0
  /\ tx = <<>>
  /\ _onOpen = FALSE
  /\ _onError = FALSE
  /\ m_protocol = NullPtr
  /\ heap = <<>>
  /\ pc = "idle"
  /\ opens = 0
  /\ secKey = ""
  /\ attempts = 0
  /\ flags = {}
  /\ currentLine = 0
  /\ counter = 0
  /\ buffer = ""
  /\ ret = "none"
  /\ errLog = <<>>
  /\ openLog = 0
  /\ stateLog = <<>>
  /\ consumed = ""
  /\ response = ""
  /\ headerLines = 0
  /\ validated = FALSE
  /\ prevKeys = {}
  /\ connectResult = "none"
  /\ closedLive = FALSE
  /\ waited = "none"
  /\ _onClose = FALSE
  /\ closeLog = <<>>
  /\ dropped = 0
  /\ polls = 0
  /\ polled = NoPoll

\* ------------------------------------------------------ callback setters
\* WebSocketClient::onOpen(callback)
onOpen ==
  /\ pc = "idle" /\ opens = 0 /\ ~_onOpen
  /\ _onOpen' = TRUE
  /\ UNCHANGED <<m_readyState, transportVars, tx, _onError, m_protocol, heap,
                 pc, opens, secKey, attempts, readerVars, ret, errLog, openLog,
                 stateLog, consumed, response, prevKeys, callVars>>
  /\ UNCHANGED pollVars

\* WebSocketClient::onError(callback)
onError ==
  /\ pc = "idle" /\ opens = 0 /\ ~_onError
  /\ _onError' = TRUE
  /\ UNCHANGED <<m_readyState, transportVars, tx, _onOpen, m_protocol, heap,
                 pc, opens, secKey, attempts, readerVars, ret, errLog, openLog,
                 stateLog, consumed, response, prevKeys, callVars>>
  /\ UNCHANGED pollVars

\* ------------------------------------------------------------ teardown
\* WebSocket::terminate(): m_client.stop(); m_readyState = CLOSED.
\* stop() closes the connection and drops what was received or in flight.
terminate ==
  /\ connected' = FALSE
  /\ pending' = ""
  /\ wire' = ""
  /\ sockets' = IF connected THEN sockets - 1 ELSE sockets
  /\ m_readyState' = "CLOSED"

\* WebSocket::close(code, instant = true): the session is force-closed.
close == terminate

\* Mutant: the notification without terminate().
_TRIGGER_ERROR_NoTerminate(code) ==
  /\ UNCHANGED <<connected, pending, wire, sockets, m_readyState>>
  /\ errLog' = IF _onError THEN Append(errLog, code) ELSE errLog

\* _TRIGGER_ERROR(code): terminate(); if (_onError) _onError(code);
_TRIGGER_ERROR(code) ==
  /\ terminate
  /\ errLog' = IF _onError THEN Append(errLog, code) ELSE errLog

\* return false; after _TRIGGER_ERROR(code)
Fail(code) ==
  /\ _TRIGGER_ERROR(code)
  /\ stateLog' = Append(stateLog, "CLOSED")
  /\ ret' = "false"
  /\ pc' = "idle"
  /\ openLog' = openLog

\* Transport and ready state left alone, rx being what stays unread.
KeepSession(rx) ==
  /\ connected' = connected
  /\ pending' = rx
  /\ wire' = wire
  /\ sockets' = sockets
  /\ m_readyState' = m_readyState
  /\ stateLog' = stateLog

\* The loop of _readResponse goes on to its next _read().
ContinueLoop(rx) ==
  /\ KeepSession(rx)
  /\ UNCHANGED <<pc, ret, errLog, openLog>>

\* Undefined behaviour taken as a crash: the program stops.
Fault(rx) ==
  /\ KeepSession(rx)
  /\ pc' = "fault"
  /\ UNCHANGED <<ret, errLog, openLog>>

\* open(), lines 58-60: m_readyState = OPEN; if (_onOpen) _onOpen(*this);
\* return true;
Succeed(rx) ==
  /\ connected' = connected
  /\ pending' = rx
  /\ wire' = wire
  /\ sockets' = sockets
  /\ m_readyState' = "OPEN"
  /\ stateLog' = Append(stateLog, "OPEN")
  /\ openLog' = IF _onOpen THEN openLog + 1 ELSE openLog
  /\ errLog' = errLog
  /\ ret' = "true"
  /\ pc' = "idle"

\* ------------------------------------------------------------- open()
\* Mutant: open() without the close(GOING_AWAY, true) of line 35.
open_NoClose ==
  /\ pc = "idle"
  /\ opens < MaxOpens
  /\ UNCHANGED <<connected, pending, wire, sockets, m_readyState>>
  /\ stateLog' = <<"CLOSED">>
  /\ opens' = opens + 1
  /\ pc' = "connect"
  /\ prevKeys' = IF secKey = "" THEN prevKeys ELSE prevKeys \cup {secKey}
  /\ secKey' = ""
  /\ tx' = <<>>
  /\ attempts' = 0
  /\ flags' = {}
  /\ currentLine' = 0
  /\ counter' = 0
  /\ buffer' = ""
  /\ headerLines' = 0
  /\ validated' = FALSE
  /\ ret' = "none"
  /\ errLog' = <<>>
  /\ openLog' = 0
  /\ consumed' = ""
  /\ response' = ""
  /\ connectResult' = "none"
  /\ closedLive' = connected
  /\ waited' = "none"
  /\ UNCHANGED <<callbackVars, m_protocol, heap>>
  /\ polls' = 0
  /\ polled' = NoPoll
  /\ closeLog' = <<>>
  /\ dropped' = 0
  /\ UNCHANGED _onClose

\* open(), line 35: close(GOING_AWAY, true) force-closes the session left
\* by an earlier call; the locals of the new call do not exist yet.
open ==
  /\ pc = "idle"
  /\ opens < MaxOpens
  /\ close
  /\ stateLog' = <<"CLOSED">>
  /\ opens' = opens + 1
  /\ pc' = "connect"
  /\ prevKeys' = IF secKey = "" THEN prevKeys ELSE prevKeys \cup {secKey}
  /\ secKey' = ""
  /\ tx' = <<>>
  /\ attempts' = 0
  /\ flags' = {}
  /\ currentLine' = 0
  /\ counter' = 0
  /\ buffer' = ""
  /\ headerLines' = 0
  /\ validated' = FALSE
  /\ ret' = "none"
  /\ errLog' = <<>>
  /\ openLog' = 0
  /\ consumed' = ""
  /\ response' = ""
  /\ connectResult' = "none"
  /\ closedLive' = connected
  /\ waited' = "none"
  /\ UNCHANGED <<callbackVars, m_protocol, heap>>
  /\ polls' = 0
  /\ polled' = NoPoll
  /\ closeLog' = <<>>
  /\ dropped' = 0
  /\ UNCHANGED _onClose

\* Mutant: the failure of connect is not acted upon.
open_connect_NoReturn ==
  /\ pc = "connect"
  /\ \E ok \in BOOLEAN :
       IF ok
         THEN /\ connectResult' = "true"
              /\ connected' = TRUE
              /\ sockets' = sockets + 1
              /\ pc' = "request"
              /\ UNCHANGED <<m_readyState, pending, wire, stateLog, ret, errLog,
                             openLog>>
         ELSE /\ connectResult' = "false"
              /\ pc' = "request"
              /\ UNCHANGED <<m_readyState, transportVars, stateLog, ret, errLog,
                             openLog>>
  /\ UNCHANGED <<tx, callbackVars, m_protocol, heap, opens, secKey, attempts,
                 readerVars, consumed, response, prevKeys, closedLive, waited>>
  /\ UNCHANGED pollVars

\* Mutant: the state is set to CONNECTING as soon as connect succeeds.
open_connect_Connecting ==
  /\ pc = "connect"
  /\ \E ok \in BOOLEAN :
       IF ok
         THEN /\ connectResult' = "true"
              /\ connected' = TRUE
              /\ sockets' = sockets + 1
              /\ pc' = "request"
              /\ m_readyState' = "CONNECTING"
              /\ stateLog' = Append(stateLog, "CONNECTING")
              /\ UNCHANGED <<pending, wire, ret, errLog, openLog>>
         ELSE /\ connectResult' = "false"
              /\ Fail("CONNECTION_REFUSED")
  /\ UNCHANGED <<tx, callbackVars, m_protocol, heap, opens, secKey, attempts,
                 readerVars, consumed, response, prevKeys, closedLive, waited>>
  /\ UNCHANGED pollVars

\* open(), lines 37-42: m_client.connect(host, port) succeeds or not.
open_connect ==
  /\ pc = "connect"
  /\ \E ok \in BOOLEAN :
       IF ok
         THEN /\ connectResult' = "true"
              /\ connected' = TRUE
              /\ sockets' = sockets + 1
              /\ pc' = "request"
              /\ UNCHANGED <<m_readyState, pending, wire, stateLog, ret, errLog,
                             openLog>>
         ELSE /\ connectResult' = "false"
              /\ Fail("CONNECTION_REFUSED")
  /\ UNCHANGED <<tx, callbackVars, m_protocol, heap, opens, secKey, attempts,
                 readerVars, consumed, response, prevKeys, closedLive, waited>>
  /\ UNCHANGED pollVars

\* _sendRequest(host, port, path, secKey, supportedProtocols): the lines
\* written, then flush().
_sendRequest(host, port, path, key, protocols) ==
  tx' = tx \o RequestLines(host, port, path, key, protocols)

\* open(), lines 44-48: generateSecKey, _sendRequest, m_readyState =
\* CONNECTING.  The server answers the request it received with one of
\* the responses Family[key], Family a function of the key sent.
open_request_of(Family) ==
  /\ pc = "request"
  /\ \E key \in generateSecKey(prevKeys) :
       /\ secKey' = key
       /\ _sendRequest(Host, Port, Path, key, ProtocolArg(opens))
       /\ \E r \in Family[key] :
            /\ response' = r
            /\ wire' = r
  /\ m_readyState' = "CONNECTING"
  /\ stateLog' = Append(stateLog, "CONNECTING")
  /\ attempts' = 0
  /\ pc' = "wait"
  /\ UNCHANGED <<connected, pending, sockets, callbackVars, m_protocol, heap,
                 opens, readerVars, ret, errLog, openLog, consumed, prevKeys,
                 callVars>>
  /\ UNCHANGED pollVars

\* open(), lines 44-48, the server answering with one of Responses.
open_request == open_request_of([key \in Keys |-> Responses(key)])

\* The transport receives bytes of the response.  The reader sees only
\* whether a byte is pending when it polls or reads, so arrivals are taken
\* when nothing is pending: all that is left or, for the responses sent in
\* single bytes, one byte.
Deliver ==
  /\ connected
  /\ wire # ""
  /\ pending = ""
  /\ \E n \in (IF response \in SlowResponses(secKey) THEN {1} ELSE {}) \cup {Len(wire)} :
       /\ pending' = Take(wire, n)
       /\ wire' = Drop(wire, n)
  /\ UNCHANGED <<m_readyState, connected, sockets, tx, callbackVars, m_protocol,
                 heap, pc, opens, secKey, attempts, readerVars, ret, errLog,
                 openLog, stateLog, consumed, response, prevKeys, callVars>>
  /\ UNCHANGED pollVars

\* _waitForResponse(maxAttempts): one evaluation of the loop condition
\* !m_client.available() && attempts < maxAttempts, then either the loop
\* body (++attempts; delay) or the return of attempts < maxAttempts.
WaitLoopGoesOn(maxAttempts) == pending = "" /\ attempts < maxAttempts
\* Mutant: return attempts <= maxAttempts.
WaitResult_OffByOne(maxAttempts) == attempts <= maxAttempts
WaitResult(maxAttempts) == attempts < maxAttempts

\* open(), lines 49-54, around _waitForResponse(kTimeoutInterval).
_waitForResponse ==
  /\ pc = "wait"
  /\ IF WaitLoopGoesOn(kTimeoutInterval)
       THEN /\ attempts' = attempts + 1
            /\ UNCHANGED <<m_readyState, transportVars, pc, ret, errLog, openLog,
                           stateLog, waited>>
       ELSE /\ attempts' = 0
            /\ waited' = IF attempts >= kTimeoutInterval THEN "budget" ELSE "data"
            /\ IF WaitResult(kTimeoutInterval)
                 THEN /\ pc' = "read"
                      /\ UNCHANGED <<m_readyState, transportVars, ret, errLog,
                                     openLog, stateLog>>
                 ELSE Fail("REQUEST_TIMEOUT")
  /\ UNCHANGED <<tx, callbackVars, m_protocol, heap, opens, secKey, readerVars,
                 consumed, response, prevKeys, connectResult, closedLive>>
  /\ UNCHANGED pollVars

\* ------------------------------------------------------ _readResponse
\* WebSocket::_read(): the next byte of the transport, or -1 when none is
\* pending.
EOF == "EOF"
_read == IF pending = "" THEN EOF ELSE Head(pending)

\* buffer[index] = bite, the buffer holding NUL past the bytes stored.
StoreAt(buf, index, bite) ==
  IF index >= Len(buf) THEN buf \o bite
  ELSE Take(buf, index) \o bite \o Drop(buf, index + 1)

\* Mutant: only "HTTP/1.1" is compared.
StatusLineOk_VersionOnly(line) == strncmp_eq(line, "HTTP/1.1", 8)
\* Lines 158-164: the check of line 0.
StatusLineOk(line) == strncmp_eq(line, "HTTP/1.1 101", kStatusPrefixLen)

\* What handling a header line can come to.
Go(f, proto) == [kind |-> "continue", cause |-> "", flags |-> f, alloc |-> proto]
Stop(code, f) == [kind |-> "fail", cause |-> code, flags |-> f, alloc |-> NullPtr]
Crash(f) == [kind |-> "fault", cause |-> "", flags |-> f, alloc |-> NullPtr]

\* Mutant: the value is compared with strcmp instead of strcasecmp_P.
UpgradeHeader_CaseSensitive(value, f) ==
  IF value.null \/ ~strcmp_eq(value.str, "websocket")
    THEN {Stop("UPGRADE_REQUIRED", f)}
    ELSE {Go(f \cup {kValidUpgradeHeader}, NullPtr)}

\* Mutant: flags = kValidUpgradeHeader instead of flags |= ...
UpgradeHeader_Assign(value, f) ==
  IF value.null \/ ~strcasecmp_eq(value.str, "websocket")
    THEN {Stop("UPGRADE_REQUIRED", f)}
    ELSE {Go({kValidUpgradeHeader}, NullPtr)}

\* Lines 176-187: Upgrade header.
UpgradeHeader(value, f) ==
  IF value.null \/ ~strcasecmp_eq(value.str, "websocket")
    THEN {Stop("UPGRADE_REQUIRED", f)}
    ELSE {Go(f \cup {kValidUpgradeHeader}, NullPtr)}

\* Lines 193-205: Connection header.
ConnectionHeader(value, f) ==
  IF value.null \/ ~strcasecmp_eq(value.str, "Upgrade")
    THEN {Stop("UPGRADE_REQUIRED", f)}
    ELSE {Go(f \cup {kValidConnectionHeader}, NullPtr)}

\* Mutant: the expected value is derived from a fixed key.
AcceptHeader_DefaultKey(value, f, key) ==
  IF value.null \/ ~strcmp_eq(value.str, encodeSecKey(KeyList[1]))
    THEN {Stop("BAD_REQUEST", f)}
    ELSE {Go(f \cup {kValidSecKey}, NullPtr)}

\* Lines 211-225: Sec-WebSocket-Accept header, checked against
\* encodeSecKey(secKey).
AcceptHeader(value, f, key) ==
  IF value.null \/ ~strcmp_eq(value.str, encodeSecKey(key))
    THEN {Stop("BAD_REQUEST", f)}
    ELSE {Go(f \cup {kValidSecKey}, NullPtr)}

\* Lines 231-236: Sec-WebSocket-Protocol header.  strlen(value) with value
\* NULL is undefined: the program crashes or copies whatever it finds.
ProtocolHeader(value, f) ==
  IF value.null THEN {Crash(f), Go(f, Ptr(""))}
  ELSE {Go(f, Ptr(value.str))}

\* Lines 166-241: a header line of non-zero length.  strcasecmp_P(header)
\* with header NULL (a line made of ':' only) is undefined: the program
\* crashes or matches no header name.
HeaderLine(line, f, key) ==
  LET t1     == strtok_r(line, {":"})
      header == t1.token
      value  == strtok_r(t1.rest, {" "}).token
  IN  IF header.null THEN {Crash(f), Go(f, NullPtr)}
      ELSE IF strcasecmp_eq(header.str, "Upgrade") THEN UpgradeHeader(value, f)
      ELSE IF strcasecmp_eq(header.str, "Connection") THEN ConnectionHeader(value, f)
      ELSE IF strcasecmp_eq(header.str, "Sec-WebSocket-Accept")
        THEN AcceptHeader(value, f, key)
      ELSE IF strcasecmp_eq(header.str, "Sec-WebSocket-Protocol")
        THEN ProtocolHeader(value, f)
      ELSE {Go(f, NullPtr)}

\* Mutant: the check of kValidSecKey is left out.
_validateHandshake_NoSecKey(f) ==
  IF kValidUpgradeHeader \notin f THEN "UPGRADE_REQUIRED"
  ELSE IF kValidConnectionHeader \notin f THEN "UPGRADE_REQUIRED"
  ELSE "OK"

\* Mutant: kValidSecKey is checked first.
_validateHandshake_SecKeyFirst(f) ==
  IF kValidSecKey \notin f THEN "BAD_REQUEST"
  ELSE IF kValidUpgradeHeader \notin f THEN "UPGRADE_REQUIRED"
  ELSE IF kValidConnectionHeader \notin f THEN "UPGRADE_REQUIRED"
  ELSE "OK"

\* _validateHandshake(flags): the cause of the first requirement that is
\* missing, or "OK".
_validateHandshake(f) ==
  IF kValidUpgradeHeader \notin f THEN "UPGRADE_REQUIRED"
  ELSE IF kValidConnectionHeader \notin f THEN "UPGRADE_REQUIRED"
  ELSE IF kValidSecKey \notin f THEN "BAD_REQUEST"
  ELSE "OK"

\* Line 257 and open() lines 56-60: return _validateHandshake(flags).
Conclude(rx) ==
  IF _validateHandshake(flags) = "OK" THEN Succeed(rx)
  ELSE Fail(_validateHandshake(flags))

\* Lines 251-253: memset(buffer, 0, sizeof(buffer)); counter = 0;
\* ++currentLine;
NextLine ==
  /\ buffer' = ""
  /\ counter' = 0
  /\ currentLine' = (currentLine + 1) % kByteModulus

\* Mutant: the empty line does not end the loop.
BlankLine_NoBreak(line, rx) ==
  /\ ContinueLoop(rx)
  /\ NextLine
  /\ UNCHANGED <<flags, headerLines, validated, m_protocol, heap>>

\* Lines 243-248 and 257: an empty header line ends the loop (break), and
\* _readResponse returns _validateHandshake(flags).
BlankLine(line, rx) ==
  /\ Conclude(rx)
  /\ validated' = TRUE
  /\ buffer' = line
  /\ counter' = (counter + 1) % kByteModulus
  /\ UNCHANGED <<flags, currentLine, headerLines, m_protocol, heap>>

\* Lines 150-253: the byte just stored was '\n'.
EndOfLine(buf, rx) ==
  LET lineBreakPos == strcspn(buf, {"\r", "\n"}) % kByteModulus
      line         == Take(buf, lineBreakPos)
  IN  IF currentLine = 0
        THEN IF ~StatusLineOk(line)
               THEN /\ Fail("BAD_REQUEST")
                    /\ buffer' = line
                    /\ counter' = (counter + 1) % kByteModulus
                    /\ UNCHANGED <<flags, currentLine, headerLines, validated,
                                   m_protocol, heap>>
               ELSE /\ ContinueLoop(rx)
                    /\ NextLine
                    /\ UNCHANGED <<flags, headerLines, validated, m_protocol, heap>>
      ELSE IF lineBreakPos > 0
        THEN \E r \in HeaderLine(line, flags, secKey) :
               /\ flags' = r.flags
               /\ headerLines' = headerLines + 1
               /\ validated' = validated
               /\ IF r.alloc.null
                    THEN UNCHANGED <<m_protocol, heap>>
                    ELSE /\ m_protocol' = r.alloc
                         /\ heap' = Append(heap, r.alloc.str)
               /\ IF r.kind = "continue"
                    THEN ContinueLoop(rx) /\ NextLine
                    ELSE /\ IF r.kind = "fail" THEN Fail(r.cause) ELSE Fault(rx)
                         /\ buffer' = line
                         /\ counter' = (counter + 1) % kByteModulus
                         /\ currentLine' = currentLine
      ELSE BlankLine(line, rx)

\* _readResponse(secKey): one turn of while ((bite = _read()) != -1).
\* buffer[counter++] with counter >= 128 writes outside the array, which is
\* undefined: the program crashes, or the byte lands in the memory that
\* follows the array and the loop goes on.
_readResponse ==
  /\ pc = "read"
  /\ IF _read = EOF
       THEN /\ Conclude(pending)
            /\ validated' = TRUE
            /\ UNCHANGED <<flags, currentLine, counter, buffer, headerLines,
                           consumed, m_protocol, heap>>
       ELSE LET bite == _read
                rx   == Tail(pending)
                buf  == StoreAt(buffer, counter, bite)
            IN  /\ consumed' = consumed \o bite
                /\ \E crash \in (IF counter >= kBufferSize THEN BOOLEAN ELSE {FALSE}) :
                     IF crash
                       THEN /\ Fault(rx)
                            /\ UNCHANGED <<readerVars, m_protocol, heap>>
                     ELSE IF bite = "\n"
                       THEN EndOfLine(buf, rx)
                     ELSE /\ ContinueLoop(rx)
                          /\ buffer' = buf
                          /\ counter' = (counter + 1) % kByteModulus
                          /\ UNCHANGED <<flags, currentLine, headerLines, validated,
                                         m_protocol, heap>>
  /\ UNCHANGED <<tx, callbackVars, opens, secKey, attempts, response, prevKeys,
                 callVars>>
  /\ UNCHANGED pollVars

Next ==
  \/ onOpen
  \/ onError
  \/ open
  \/ open_connect
  \/ open_request
  \/ Deliver
  \/ _waitForResponse
  \/ _readResponse

Spec == Init /\ [][Next]_vars

\* ------------------------------------------------------------- listen()
\* Responses of the server in the sessions that are polled afterwards; the
\* bytes after the blank line are the beginning of a frame.
ListenResponses(key) ==
  { Lines(<<StatusLine, UpgradeHdr, ConnectionHdr, AcceptHdr(key), "">>, CRLF),
    Lines(<<StatusLine, UpgradeHdr, ConnectionHdr, AcceptHdr(key), "">>, CRLF) \o "frame",
    Lines(<<StatusLine, UpgradeHdr, "">>, CRLF) }

\* open(), lines 44-48, the server answering with one of ListenResponses.
open_request_listen == open_request_of([key \in Keys |-> ListenResponses(key)])

\* setOnCloseCallback(callback)
onClose ==
  /\ pc = "idle" /\ opens = 0 /\ ~_onClose
  /\ _onClose' = TRUE
  /\ UNCHANGED <<m_readyState, transportVars, tx, callbackVars, m_protocol, heap,
                 pc, opens, secKey, attempts, readerVars, ret, errLog, openLog,
                 stateLog, consumed, response, prevKeys, callVars, closeLog,
                 dropped, polls, polled>>

\* The peer drops the connection without a closing handshake: connected()
\* turns false and nothing more arrives.
PeerDisconnect ==
  /\ pc = "idle"
  /\ connected
  /\ connected' = FALSE
  /\ wire' = ""
  /\ sockets' = sockets - 1
  /\ dropped' = dropped + 1
  /\ UNCHANGED <<m_readyState, pending, tx, callbackVars, m_protocol, heap, pc,
                 opens, secKey, attempts, readerVars, ret, errLog, openLog,
                 stateLog, consumed, response, prevKeys, callVars, _onClose,
                 closeLog, polls, polled>>

\* The server sends the bytes of a frame on the open session.
ServerSends ==
  /\ pc = "idle"
  /\ connected /\ m_readyState = "OPEN"
  /\ wire = "" /\ pending = ""
  /\ polls < MaxListens
  /\ wire' = "frame"
  /\ UNCHANGED <<m_readyState, connected, pending, sockets, tx, callbackVars,
                 m_protocol, heap, pc, opens, secKey, attempts, readerVars, ret,
                 errLog, openLog, stateLog, consumed, response, prevKeys,
                 callVars, pollVars>>

\* WebSocket::_readFrame(): reads bytes of one frame from the transport.
_readFrame == \E n \in 1..Len(pending) : pending' = Drop(pending, n)

\* What a listen() call found (connected(), m_readyState, available()) and
\* did (_onClose calls, _readFrame calls).
Polled(closes, frames) ==
  [made |-> TRUE, connected |-> connected, state |-> m_readyState,
   available |-> pending # "", closes |-> closes, frames |-> frames]

\* Mutant: the notification without terminate().
listen_NoTerminate ==
  /\ pc = "idle"
  /\ polls < MaxListens
  /\ polls' = polls + 1
  /\ IF ~connected
       THEN IF m_readyState = "OPEN"
              THEN /\ closeLog' = IF _onClose THEN Append(closeLog, "ABNORMAL_CLOSURE")
                                  ELSE closeLog
                   /\ polled' = Polled(IF _onClose THEN 1 ELSE 0, 0)
                   /\ UNCHANGED <<m_readyState, transportVars>>
              ELSE /\ polled' = Polled(0, 0)
                   /\ UNCHANGED <<m_readyState, transportVars, closeLog>>
       ELSE IF pending # ""
              THEN /\ _readFrame
                   /\ polled' = Polled(0, 1)
                   /\ UNCHANGED <<m_readyState, connected, wire, sockets, closeLog>>
              ELSE /\ polled' = Polled(0, 0)
                   /\ UNCHANGED <<m_readyState, transportVars, closeLog>>
  /\ UNCHANGED <<tx, callbackVars, m_protocol, heap, pc, opens, secKey, attempts,
                 readerVars, ret, errLog, openLog, stateLog, consumed, response,
                 prevKeys, callVars, _onClose, dropped>>

\* WebSocketClient::listen(), lines 64-74.
listen ==
  /\ pc = "idle"
  /\ polls < MaxListens
  /\ polls' = polls + 1
  /\ IF ~connected
       THEN IF m_readyState = "OPEN"
              THEN /\ terminate
                   /\ closeLog' = IF _onClose THEN Append(closeLog, "ABNORMAL_CLOSURE")
                                  ELSE closeLog
                   /\ polled' = Polled(IF _onClose THEN 1 ELSE 0, 0)
              ELSE /\ polled' = Polled(0, 0)
                   /\ UNCHANGED <<m_readyState, transportVars, closeLog>>
       ELSE IF pending # ""
              THEN /\ _readFrame
                   /\ polled' = Polled(0, 1)
                   /\ UNCHANGED <<m_readyState, connected, wire, sockets, closeLog>>
              ELSE /\ polled' = Polled(0, 0)
                   /\ UNCHANGED <<m_readyState, transportVars, closeLog>>
  /\ UNCHANGED <<tx, callbackVars, m_protocol, heap, pc, opens, secKey, attempts,
                 readerVars, ret, errLog, openLog, stateLog, consumed, response,
                 prevKeys, callVars, _onClose, dropped>>

NextListen ==
  \/ onOpen
  \/ onError
  \/ onClose
  \/ open
  \/ open_connect
  \/ open_request_listen
  \/ Deliver
  \/ _waitForResponse
  \/ _readResponse
  \/ listen
  \/ PeerDisconnect
  \/ ServerSends

SpecListen == Init /\ [][NextListen]_vars

\* ------------------------------------------------ header line variety
\* Responses whose header section holds lines without ':', repeated
\* headers, Sec-WebSocket-Protocol headers and bytes after the blank line;
\* every line fits the line buffer.
ProtocolHdr(name) == "Sec-WebSocket-Protocol: " \o name
HeaderResponses(key) ==
  { Lines(<<StatusLine, UpgradeHdr, ConnectionHdr, AcceptHdr(key), "">>, CRLF) \o "frame",
    Lines(<<StatusLine, UpgradeHdr, "", ConnectionHdr, AcceptHdr(key), "">>, CRLF),
    Lines(<<StatusLine, "Server", UpgradeHdr, ConnectionHdr, AcceptHdr(key), "">>, CRLF),
    Lines(<<StatusLine, "Upgrade", ConnectionHdr, AcceptHdr(key), "">>, CRLF),
    Lines(<<StatusLine, UpgradeHdr, ConnectionHdr, "sec-websocket-accept", "">>, CRLF),
    Lines(<<StatusLine, UpgradeHdr, ConnectionHdr, UpgradeHdr, AcceptHdr(key),
            AcceptHdr(key), "">>, CRLF),
    Lines(<<StatusLine, UpgradeHdr, ConnectionHdr, AcceptHdr(key), "Upgrade: h2c", "">>,
          CRLF),
    Lines(<<StatusLine, ProtocolHdr("chat"), UpgradeHdr, ConnectionHdr, AcceptHdr(key),
            "">>, CRLF),
    Lines(<<StatusLine, UpgradeHdr, ConnectionHdr, AcceptHdr(key),
            "Sec-WebSocket-Protocol:", "">>, CRLF),
    Lines(<<StatusLine, "sec-websocket-protocol: chat, superchat", UpgradeHdr, "">>, CRLF),
    Lines(<<StatusLine, ProtocolHdr("chat"), ProtocolHdr("mqtt"), UpgradeHdr,
            ConnectionHdr, AcceptHdr(key), "">>, CRLF),
    Lines(<<StatusLine, ":", UpgradeHdr, ConnectionHdr, AcceptHdr(key), "">>, CRLF),
    Lines(<<StatusLine, UpgradeHdr, ConnectionHdr, AcceptHdr(key)>>, CRLF) }

\* open(), lines 44-48, the server answering with one of HeaderResponses.
open_request_headers == open_request_of([key \in Keys |-> HeaderResponses(key)])

NextHeaders ==
  \/ onOpen
  \/ onError
  \/ open
  \/ open_connect
  \/ open_request_headers
  \/ Deliver
  \/ _waitForResponse
  \/ _readResponse

SpecHeaders == Init /\ [][NextHeaders]_vars

\* ------------------------------------------- long lines, many lines
\* n copies of s (halving keeps the evaluation shallow).
RECURSIVE Repeat(_, _)
Repeat(s, n) ==
  IF n = 0 THEN ""
  ELSE IF n = 1 THEN s
  ELSE Repeat(s, n \div 2) \o Repeat(s, n - n \div 2)

\* Responses with a header line longer than the line buffer, longer than
\* the range of the byte counter, and with more header lines than the range
\* of the line counter.
LongResponses(key) ==
  { Lines(<<StatusLine, UpgradeHdr, ConnectionHdr, AcceptHdr(key), "">>, CRLF),
    Lines(<<StatusLine, UpgradeHdr, ConnectionHdr, AcceptHdr(key),
            "X-Long: " \o Repeat("a", kBufferSize), "">>, CRLF),
    Lines(<<StatusLine, "X-Long: " \o Repeat("a", kByteModulus), UpgradeHdr,
            ConnectionHdr, AcceptHdr(key), "">>, CRLF),
    Lines(<<StatusLine>>, CRLF) \o Repeat("x\n", kByteModulus - 2)
      \o Lines(<<UpgradeHdr, ConnectionHdr, AcceptHdr(key), "">>, CRLF),
    Lines(<<StatusLine>>, CRLF) \o Repeat("x\n", kByteModulus)
      \o Lines(<<UpgradeHdr, ConnectionHdr, AcceptHdr(key), "">>, CRLF) }

\* open(), lines 44-48, the server answering with one of LongResponses.
open_request_long == open_request_of([key \in Keys |-> LongResponses(key)])

NextLong ==
  \/ onOpen
  \/ onError
  \/ open
  \/ open_connect
  \/ open_request_long
  \/ Deliver
  \/ _waitForResponse
  \/ _readResponse

SpecLong == Init /\ [][NextLong]_vars

\* ------------------------------------------------- reading the records
\* open() has returned.
Returned == pc = "idle" /\ ret # "none"
\* The error notification fired once, with this cause, if a callback is set.
ErrorOnce(cause) == errLog = IF _onError THEN <<cause>> ELSE <<>>
\* The key written in the request of the current/last open().
SentKey == Drop(tx[5], Len("Sec-WebSocket-Key: "))
\* s ends with '\n'.
EndsLF(s) == s # "" /\ CharAt(s, Len(s)) = "\n"
\* Number of '\n' bytes in s.
PositionsLF(s) == {i \in 1..Len(s) : CharAt(s, i) = "\n"}
CountLF(s) == Cardinality(PositionsLF(s))
MaxOf(S) == CHOOSE m \in S : \A x \in S : x <= m
\* l without a trailing '\r'.
StripCR(l) == IF l # "" /\ CharAt(l, Len(l)) = "\r" THEN Take(l, Len(l) - 1) ELSE l
\* The first line of s, without its line ending, s holding a '\n'.
FirstLineOf(s) == StripCR(Take(s, strcspn(s, {"\n"})))
\* The last complete line of s, without its line ending, s ending in '\n'.
LastLineOf(s) ==
  LET before == PositionsLF(s) \ {Len(s)}
      from   == IF before = {} THEN 0 ELSE MaxOf(before)
  IN  StripCR(SubSeq(s, from + 1, Len(s) - 1))
\* The name of header line l (the text before its first ':'), in lower case.
HeaderName(l) == LowerStr(Take(l, strcspn(l, {":"})))
\* The value of header line l: the text after its first ':' without the
\* spaces around it.
RECURSIVE Trim(_)
Trim(v) ==
  IF v = "" THEN ""
  ELSE IF Head(v) = " " THEN Trim(Tail(v))
  ELSE IF CharAt(v, Len(v)) = " " THEN Trim(Take(v, Len(v) - 1))
  ELSE v
HeaderValue(l) == Trim(Drop(l, strcspn(l, {":"}) + 1))

\* s ends with a blank line that is not its first line.
EndsWithBlankLine(s) ==
  /\ EndsLF(s)
  /\ CountLF(s) >= 2
  /\ LastLineOf(s) = ""
\* The current/last open() ended in REQUEST_TIMEOUT's path: connected, and
\* nothing read or validated.
WaitGaveUp == Returned /\ connectResult = "true" /\ consumed = "" /\ ~validated
\* The loop of _readResponse ended because _read() found no byte pending.
StreamRanDry == validated /\ ~EndsWithBlankLine(consumed)

\* ----------------------------------------------------------------- claims
\* C1: when the response to open() is a 101 status line, valid Upgrade,
\* Connection and Sec-WebSocket-Accept headers (the accept value computed
\* from the key sent in the request) and a blank line, and its bytes are
\* there when the client asks for them, open() reads it whole, returns
\* true, the ready state is OPEN on return, _onOpen is invoked exactly once
\* and _onError is not invoked.
C1_ValidResponseOpens ==
  (/\ Returned /\ connectResult = "true"
   /\ response \in ValidResponses(SentKey)
   /\ ~WaitGaveUp /\ ~StreamRanDry) =>
    /\ ret = "true"
    /\ consumed = response
    /\ m_readyState = "OPEN"
    /\ openLog = (IF _onOpen THEN 1 ELSE 0)
    /\ errLog = <<>>
C1_Witness ==
  /\ Returned /\ connectResult = "true"
  /\ response \in ValidResponses(SentKey)
  /\ consumed = response
  /\ _onOpen /\ _onError
  /\ ret = "true" /\ openLog = 1 /\ errLog = <<>> /\ m_readyState = "OPEN"

\* C2: the ready state is OPEN after open() only if the three handshake
\* flags were set during that call, and whenever open() returns false the
\* ready state is CLOSED at that moment.
C2_OpenOnlyWithAllFlags ==
  /\ m_readyState = "OPEN" => (flags = AllFlags /\ ret = "true")
  /\ (Returned /\ ret = "true") => (m_readyState = "OPEN" /\ flags = AllFlags)
  /\ (Returned /\ ret = "false") => m_readyState = "CLOSED"
C2_Witness ==
  /\ Returned /\ ret = "false" /\ m_readyState = "CLOSED"
  /\ "CONNECTING" \in {stateLog[i] : i \in 1..Len(stateLog)}
  /\ flags = {kValidUpgradeHeader, kValidConnectionHeader}

\* The cause the failing path of the current/last open() stands for.
FailureCause ==
  IF connectResult = "false" THEN "CONNECTION_REFUSED"
  ELSE IF WaitGaveUp THEN "REQUEST_TIMEOUT"
  ELSE IF validated
    THEN (IF {kValidUpgradeHeader, kValidConnectionHeader} \subseteq flags
            THEN "BAD_REQUEST" ELSE "UPGRADE_REQUIRED")
  ELSE IF CountLF(consumed) = 1 THEN "BAD_REQUEST"
  ELSE IF HeaderName(LastLineOf(consumed)) \in {"upgrade", "connection"}
    THEN "UPGRADE_REQUIRED"
  ELSE "BAD_REQUEST"

\* C3: on every failing path of open() (connection refused, timeout, bad
\* status line, invalid header value, missing flag) the transport is
\* terminated, the ready state is CLOSED, _onError is invoked exactly once
\* with the cause of that path, _onOpen is not invoked and open() returns
\* false; no call invokes _onError twice or both callbacks.
C3_FailureTearsDown ==
  /\ Len(errLog) <= 1
  /\ openLog <= 1
  /\ ~(errLog # <<>> /\ openLog > 0)
  /\ (Returned /\ ret = "false") =>
       /\ ~connected /\ pending = "" /\ sockets = 0
       /\ m_readyState = "CLOSED"
       /\ openLog = 0
       /\ ErrorOnce(FailureCause)
  /\ Returned => (ret = "false" <=> (connectResult = "false" \/ WaitGaveUp
                                      \/ ~validated \/ flags # AllFlags))
C3_Witness ==
  /\ Returned /\ ret = "false" /\ _onError /\ _onOpen
  /\ ~validated /\ CountLF(consumed) > 1
  /\ errLog = <<"UPGRADE_REQUIRED">>
  /\ ~connected /\ m_readyState = "CLOSED"

\* C4: the outcome of open() does not depend on how the transport delivers
\* the bytes of a response; in particular, once the first byte of a valid
\* 101 response has arrived in time, open() ends in OPEN however the rest
\* of the bytes arrive.
C4_DeliveryIndependent ==
  (/\ Returned /\ connectResult = "true"
   /\ response \in ValidResponses(SentKey)
   /\ consumed # "") =>
    (ret = "true" /\ m_readyState = "OPEN")

\* C5: when every one of the kTimeoutInterval polls of the wait loop finds
\* no byte available, open() fails with REQUEST_TIMEOUT, the ready state
\* went CONNECTING then CLOSED, and no byte of the response was read.
C5_TimeoutWhenNothingArrives ==
  /\ waited = "budget" =>
       /\ Returned
       /\ ret = "false"
       /\ ErrorOnce("REQUEST_TIMEOUT")
       /\ stateLog = <<"CLOSED", "CONNECTING", "CLOSED">>
       /\ m_readyState = "CLOSED"
       /\ consumed = ""
       /\ openLog = 0
  /\ pc = "wait" => (attempts <= kTimeoutInterval /\ m_readyState = "CONNECTING")
C5_Witness ==
  /\ waited = "budget" /\ Returned /\ _onError
  /\ errLog = <<"REQUEST_TIMEOUT">> /\ ret = "false"
  /\ response = ""

\* The first line of the response has been read.
FirstLineRead == strcspn(consumed, {"\n"}) < Len(consumed)

\* C6: when the first line of the response does not begin with
\* "HTTP/1.1 101", open() fails with BAD_REQUEST as soon as that line is
\* read: no header line has been examined and no byte after the first line
\* has been read.
C6_BadStatusLine ==
  ((Returned \/ EndsLF(consumed)) /\ FirstLineRead /\ Take(FirstLineOf(consumed), 12) # "HTTP/1.1 101") =>
    /\ Returned
    /\ ret = "false"
    /\ ErrorOnce("BAD_REQUEST")
    /\ headerLines = 0
    /\ CountLF(consumed) = 1
    /\ ~validated
C6_Witness ==
  /\ FirstLineRead /\ FirstLineOf(consumed) = "HTTP/1.1 404 Not Found"
  /\ Returned /\ ret = "false" /\ _onError /\ errLog = <<"BAD_REQUEST">>
  /\ headerLines = 0

\* The otherwise valid response that lacks one header.
OnlyMissing(header, key) ==
  Lines(<<StatusLine>> \o SelectSeq(<<UpgradeHdr, ConnectionHdr, AcceptHdr(key)>>,
                                   LAMBDA h : h # header) \o <<"">>, CRLF)

\* C7: when header parsing ends (blank line or end of stream) without an
\* earlier failure, the final check reports the first missing requirement
\* in the order Upgrade, Connection, Sec-WebSocket-Accept: UPGRADE_REQUIRED
\* when Upgrade is missing (state CLOSED, _onError exactly once),
\* UPGRADE_REQUIRED when only Connection is missing, BAD_REQUEST when only
\* Sec-WebSocket-Accept is missing.
C7_FirstMissingRequirement ==
  /\ (Returned /\ validated /\ kValidUpgradeHeader \notin flags) =>
       (ret = "false" /\ ErrorOnce("UPGRADE_REQUIRED") /\ m_readyState = "CLOSED")
  /\ (Returned /\ validated /\ kValidUpgradeHeader \in flags
        /\ kValidConnectionHeader \notin flags) =>
       (ret = "false" /\ ErrorOnce("UPGRADE_REQUIRED") /\ m_readyState = "CLOSED")
  /\ (Returned /\ validated /\ flags = {kValidUpgradeHeader, kValidConnectionHeader}) =>
       (ret = "false" /\ ErrorOnce("BAD_REQUEST") /\ m_readyState = "CLOSED")
  /\ (Returned /\ tx # <<>> /\ consumed = OnlyMissing(UpgradeHdr, SentKey)) =>
       (ret = "false" /\ ErrorOnce("UPGRADE_REQUIRED") /\ validated)
  /\ (Returned /\ tx # <<>> /\ consumed = OnlyMissing(ConnectionHdr, SentKey)) =>
       (ret = "false" /\ ErrorOnce("UPGRADE_REQUIRED") /\ validated)
  /\ (Returned /\ tx # <<>> /\ consumed = OnlyMissing(AcceptHdr(SentKey), SentKey)) =>
       (ret = "false" /\ ErrorOnce("BAD_REQUEST") /\ validated)
C7_Witness ==
  /\ Returned /\ validated /\ _onError
  /\ flags = {kValidConnectionHeader}
  /\ EndsWithBlankLine(consumed)
  /\ errLog = <<"UPGRADE_REQUIRED">> /\ m_readyState = "CLOSED"

\* The line just read is a Sec-WebSocket-Accept header.
LastHeaderIsAccept ==
  /\ tx # <<>>
  /\ EndsLF(consumed)
  /\ CountLF(consumed) >= 2
  /\ HeaderName(LastLineOf(consumed)) = "sec-websocket-accept"

\* C8: when the reader examines a Sec-WebSocket-Accept header whose value
\* is not exactly (case-sensitively) the accept value derived from the key
\* sent in this attempt's request, open() fails with BAD_REQUEST; the
\* accept value of an earlier attempt's key is rejected like any other.
C8_AcceptMismatch ==
  (LastHeaderIsAccept
     /\ HeaderValue(LastLineOf(consumed)) # encodeSecKey(SentKey)) =>
    /\ Returned
    /\ ret = "false"
    /\ ErrorOnce("BAD_REQUEST")
    /\ m_readyState = "CLOSED"
    /\ kValidSecKey \notin flags
C8_Witness ==
  /\ LastHeaderIsAccept
  /\ \E k \in prevKeys :
       k # SentKey /\ HeaderValue(LastLineOf(consumed)) = encodeSecKey(k)
  /\ Returned /\ ret = "false" /\ _onError /\ errLog = <<"BAD_REQUEST">>

\* C9: each open() force-closes the session left by the previous call
\* before it attempts a new transport connection: when connect is about to
\* be invoked the transport is not connected and the ready state is not
\* OPEN, and no two transport connections are ever open at once.
C9_ForceCloseBeforeConnect ==
  /\ pc = "connect" => (~connected /\ sockets = 0 /\ m_readyState = "CLOSED")
  /\ sockets <= 1
  /\ sockets = (IF connected THEN 1 ELSE 0)
C9_Witness ==
  /\ pc = "connect" /\ opens = 2 /\ closedLive
  /\ ~connected /\ sockets = 0 /\ m_readyState = "CLOSED"

\* C10: when the transport connect fails, open() fails with
\* CONNECTION_REFUSED, nothing is written to the transport, no response
\* byte is read, and the ready state never is CONNECTING during that call
\* (it is CLOSED on return).
C10_ConnectionRefused ==
  connectResult = "false" =>
    /\ Returned
    /\ ret = "false"
    /\ ErrorOnce("CONNECTION_REFUSED")
    /\ tx = <<>>
    /\ consumed = ""
    /\ \A i \in 1..Len(stateLog) : stateLog[i] = "CLOSED"
    /\ m_readyState = "CLOSED"
    /\ ~connected
C10_Witness ==
  /\ connectResult = "false" /\ Returned /\ _onError
  /\ errLog = <<"CONNECTION_REFUSED">> /\ tx = <<>>

\* C11: a listen() call that finds the transport not connected while the
\* ready state is OPEN sets the state to CLOSED and calls _onClose with
\* ABNORMAL_CLOSURE; over the listen() calls that follow one silent
\* disconnect that call is made exactly once, and never when the state is
\* not OPEN; _readFrame is called at most once per listen() and only when
\* the transport is connected and has data available.
C11_ListenPolls ==
  /\ polled.made =>
       /\ polled.closes = (IF ~polled.connected /\ polled.state = "OPEN" /\ _onClose
                             THEN 1 ELSE 0)
       /\ (~polled.connected /\ polled.state = "OPEN") => m_readyState = "CLOSED"
       /\ polled.frames = (IF polled.connected /\ polled.available THEN 1 ELSE 0)
  /\ \A i \in 1..Len(closeLog) : closeLog[i] = "ABNORMAL_CLOSURE"
  /\ Len(closeLog) <= dropped
  /\ (polled.made /\ ~polled.connected) =>
       Len(closeLog) = (IF _onClose THEN dropped ELSE 0)
C11_Witness ==
  /\ _onClose /\ dropped = 1 /\ polls = MaxListens
  /\ polled.made /\ ~polled.connected /\ polled.state = "CLOSED"
  /\ closeLog = <<"ABNORMAL_CLOSURE">>
  /\ m_readyState = "CLOSED"

\* The ends of the empty lines of s that come after its first line: the
\* '\n' bytes that follow a '\n' or a '\n' and a '\r'.
BlankHeaderLines(s) ==
  {i \in 2..Len(s) :
     /\ CharAt(s, i) = "\n"
     /\ \/ CharAt(s, i - 1) = "\n"
        \/ (i > 2 /\ SubSeq(s, i - 2, i - 1) = "\n\r")}

\* C12: when the reader meets an empty header line it stops at once: no
\* byte after that line's '\n' is consumed, open() returns with the outcome
\* the flags set so far give, and (the transport staying up, on success)
\* the bytes that follow are still to be read from the transport.
C12_BlankLineStops ==
  \A i \in BlankHeaderLines(consumed) :
    /\ i = Len(consumed)
    /\ consumed = Take(response, i)
    /\ Returned /\ validated
    /\ ret = (IF flags = AllFlags THEN "true" ELSE "false")
    /\ ret = "true" => pending \o wire = Drop(response, i)
    /\ ret = "false" => ErrorOnce(_validateHandshake(flags))
C12_Witness ==
  /\ BlankHeaderLines(consumed) # {}
  /\ Returned /\ ret = "true"
  /\ pending = "frame"
  /\ Len(response) = Len(consumed) + Len("frame")

\* The reader is about to read the '\n' that ends a header line.
EndingHeaderLine ==
  pc = "read" /\ pending # "" /\ Head(pending) = "\n" /\ currentLine > 0
\* The line held in the buffer, without its line ending.
LineInBuffer == Take(buffer, strcspn(buffer, {"\r", "\n"}))
\* l holds a ':'.
HasColon(l) == strcspn(l, {":"}) < Len(l)

\* C13: a header line of non-zero length that holds no ':' is ignored
\* whatever its text: reading it sets no flag, makes no error notification
\* and the reader goes on with the next line.
C13_ColonlessIgnored ==
  [][(EndingHeaderLine /\ LineInBuffer # "" /\ ~HasColon(LineInBuffer)) =>
       (pc' = "read" /\ flags' = flags /\ errLog' = errLog)]_vars

\* C14: for response lines of any length the index at which the reader
\* stores the next byte is within the line buffer (0..127) whenever a byte
\* is about to be stored, so no byte is written outside the buffer.
C14_StoreIndexInBuffer ==
  (pc = "read" /\ pending # "") => counter < kBufferSize

\* C15: _waitForResponse reports success exactly when a byte is available
\* at the moment its loop exits: a wait that finds a byte pending, in the
\* delay after the last attempt included, goes on to read the response and
\* open() does not end in REQUEST_TIMEOUT.
C15_ByteInWindowIsRead ==
  [][(pc = "wait" /\ pending # "") => pc' = "read"]_vars

\* The states m_readyState may go through in one open().
StateSequences ==
  { <<>>, <<"CLOSED">>, <<"CLOSED", "CLOSED">>, <<"CLOSED", "CONNECTING">>,
    <<"CLOSED", "CONNECTING", "OPEN">>, <<"CLOSED", "CONNECTING", "CLOSED">> }

\* C16: within one open() the ready state goes CLOSED (after the
\* force-close), CONNECTING, then OPEN or CLOSED: it is CONNECTING only
\* after a successful connect and with the whole request emitted, it is
\* CONNECTING throughout the wait and the reading of the headers, it is
\* OPEN only once open() has returned true with the open notification
\* made, and it never goes back to CONNECTING nor leaves OPEN in that call.
C16_StateSequence ==
  /\ stateLog \in StateSequences
  /\ stateLog # <<>> => m_readyState = stateLog[Len(stateLog)]
  /\ pc \in {"connect", "request"} => m_readyState = "CLOSED"
  /\ pc \in {"wait", "read"} => m_readyState = "CONNECTING"
  /\ m_readyState = "CONNECTING" =>
       /\ pc \in {"wait", "read"}
       /\ connectResult = "true" /\ connected
       /\ tx = RequestLines(Host, Port, Path, secKey, ProtocolArg(opens))
  /\ m_readyState = "OPEN" =>
       /\ Returned /\ ret = "true"
       /\ openLog = (IF _onOpen THEN 1 ELSE 0)
C16_Witness ==
  /\ opens = 2 /\ closedLive /\ Returned /\ _onOpen
  /\ stateLog = <<"CLOSED", "CONNECTING", "OPEN">>
  /\ m_readyState = "OPEN" /\ openLog = 1
  /\ Len(tx) = 7

\* C17: within one handshake attempt the flag set starts empty and only
\* grows: no step of the attempt, the reading of a later duplicate of a
\* header included, removes a flag, and a new attempt starts with no flag
\* of the one before.
C17_FlagsOnlyGrow ==
  /\ [](pc \in {"connect", "request", "wait"} => flags = {})
  /\ [][pc' # "connect" => flags \subseteq flags']_vars
C17_Witness ==
  /\ Returned /\ ret = "false" /\ flags = AllFlags
  /\ HeaderName(LastLineOf(consumed)) = "upgrade"
  /\ HeaderValue(LastLineOf(consumed)) = "h2c"

\* The first space-delimited word of v.
FirstToken(v) == Take(v, strcspn(v, {" "}))

\* C18: a Sec-WebSocket-Protocol header changes neither the flags nor the
\* outcome of open(): with a value token, the token is captured as the
\* negotiated protocol; with no value token, nothing is captured, nothing
\* is read in place of the token, and the reader goes on with the next
\* line.
C18_ProtocolHeaderHarmless ==
  [][(/\ EndingHeaderLine /\ HasColon(LineInBuffer)
      /\ HeaderName(LineInBuffer) = "sec-websocket-protocol") =>
       /\ pc' = "read"
       /\ flags' = flags
       /\ errLog' = errLog
       /\ IF HeaderValue(LineInBuffer) # ""
            THEN m_protocol' = Ptr(FirstToken(HeaderValue(LineInBuffer)))
            ELSE m_protocol' = m_protocol /\ heap' = heap]_vars

\* C19: at most one negotiated-protocol string is allocated at any time,
\* and it is the one m_protocol points to: a string captured earlier is
\* released when another one takes its place.
C19_OneProtocolOwned ==
  /\ Len(heap) <= 1
  /\ heap # <<>> => m_protocol = Ptr(heap[1])

\* The reader is about to read the '\n' that ends a line after the first.
EndingLaterLine ==
  pc = "read" /\ pending # "" /\ Head(pending) = "\n" /\ CountLF(consumed) >= 1

\* C20: the status-line check is applied to the first line only: a later
\* line, whatever the number of lines before it, is handled as a header
\* line, so a non-empty line that names none of the checked headers never
\* ends open() nor makes an error notification.
C20_StatusCheckFirstLineOnly ==
  [][(/\ EndingLaterLine /\ LineInBuffer # ""
      /\ HeaderName(LineInBuffer) \notin
           {"upgrade", "connection", "sec-websocket-accept"}) =>
       (pc' # "idle" /\ errLog' = errLog)]_vars
====
